---- MODULE Spec2Model ----
(***************************************************************************)
(* s3-profiler: the per-bucket analysis pipeline and the worker pool.      *)
(*                                                                         *)
(*   ProfileBucket = AnalyzeBucket (creation date, paginated listing with  *)
(*   the streaming summary, cost) -> AnalyzeMetadata -> AnalyzePartitions  *)
(*   -> three output writes.                                               *)
(*                                                                         *)
(*   ProfileMultipleBuckets = a pool of workers that take bucket names     *)
(*   from a buffered channel and update shared counters under a mutex;     *)
(*   there a ProfileBucket call is one step that succeeds or fails.        *)
(*                                                                         *)
(* Strings the code inspects character by character (object keys, regexp   *)
(* shapes, extensions, prefixes) are sequences of one-character strings.   *)
(* Strings the code only compares or stores whole (storage classes,        *)
(* pattern names, errors) are TLA+ strings.                                *)
(***************************************************************************)
EXTENDS Integers, Sequences, FiniteSets, TLC

VARIABLES
    pc,                \* position in ProfileBucket / AnalyzeBucket / listObjects
    bucket,            \* the store's contents, in listing order (never changes)
    limit,             \* BucketAnalyzer.limit
    continuationToken, \* listObjects: records already handed out by the store (0 = nil)
    page,              \* result.Contents still to be processed by the range loop
    isTruncated,       \* result.IsTruncated of the page being processed
    nextToken,         \* result.NextContinuationToken of the page being processed
    processedCount,    \* listObjects: processedCount
    objects,           \* listObjects: objects, then the collection handed on
    summary,           \* *types.BucketSummary (the fields the analysis computes)
    metadata,          \* *types.MetadataSummary, NoValue until AnalyzeMetadata ran
    patIdx,            \* detectDatePartitions: index of the pattern being tried
    datePartitions,    \* AnalyzePartitions: datePartitions
    partitions,        \* AnalyzePartitions: the returned slice
    phases,            \* which phases of AnalyzePartitions have run
    written,           \* output files written so far
    err                \* the error ProfileBucket returns, "nil" when none

\* ProfileMultipleBuckets
VARIABLES
    bucketNames,        \* the names to profile
    maxWorkers,         \* maxWorkers
    mainPc,             \* position of the main goroutine
    spawned,            \* i of the loop that starts the workers
    sent,               \* names sent to bucketChan so far
    bucketChan,         \* the names buffered in bucketChan
    chanClosed,         \* bucketChan is closed
    wg,                 \* the counter of wg
    mu,                 \* the worker that holds mu, 0 when nobody does
    wpc,                \* position of each worker
    section,            \* the critical section each worker is in or heading for
    bucketName,         \* each worker's bucketName
    tmp,                \* what each worker has read inside its critical section
    successCount,       \* successCount
    failedBuckets,      \* failedBuckets
    poolProcessedCount, \* processedCount of ProfileMultipleBuckets
    ledger,             \* per name: receives, region lookups, ProfileBucket calls, outcome
    printed,            \* the summary printed at the end
    ret                 \* what ProfileMultipleBuckets returned

poolVars == <<bucketNames, maxWorkers, mainPc, spawned, sent, bucketChan, chanClosed,
              wg, mu, wpc, section, bucketName, tmp, successCount, failedBuckets,
              poolProcessedCount, ledger, printed, ret>>

vars == <<pc, bucket, limit, continuationToken, page, isTruncated, nextToken,
          processedCount, objects, summary, metadata, patIdx, datePartitions,
          partitions, phases, written, err, poolVars>>

-----------------------------------------------------------------------------
(* Bounds of the model *)

\* longest bucket listed by the pipeline specification
MaxBucket == 3
\* largest --limit tried (0 = unlimited)
MaxLimit == 2
\* keys per page when MaxKeys is unset; stands for the 1000 of bucket.go:92
PageKeys == 2
\* longest collection handed to AnalyzeMetadata on its own
MaxMetaObjects == 3
\* longest collection handed to AnalyzePartitions with the date catalogue
MaxDateObjects == 4
\* longest collection handed to AnalyzePartitions with the prefix catalogue
MaxHierObjects == 6
\* longest collection handed to AnalyzePartitions with the examples catalogue
MaxExampleObjects == 5
\* most bucket names handed to ProfileMultipleBuckets
MaxBucketNames == 3
\* the cap of the worker pool; stands for the 5 of maxWorkers := 5
MaxWorkers == 2

-----------------------------------------------------------------------------
(* Strings *)

NoValue == "<nil>"

\* The bytes that occur in the catalogues, in ascending byte order.
Ascii == <<"-", ".", "/", "0", "1", "2", "3", "4", "5", "6", "7", "8", "9", "=",
           "A", "B", "C", "D", "E", "M", "R", "S", "V",
           "a", "b", "c", "d", "e", "f", "g", "h", "i", "l", "m", "n", "o",
           "r", "s", "t", "x", "y", "z">>

Code(c) == CHOOSE i \in 1..Len(Ascii) : Ascii[i] = c

Digits == {"0", "1", "2", "3", "4", "5", "6", "7", "8", "9"}

UpperCase == <<"A", "B", "C", "D", "E", "M", "R", "S", "V">>
LowerCase == <<"a", "b", "c", "d", "e", "m", "r", "s", "v">>

\* strings.ToLower on one byte
LowerChar(c) ==
    IF \E i \in 1..Len(UpperCase) : UpperCase[i] = c
    THEN LowerCase[CHOOSE i \in 1..Len(UpperCase) : UpperCase[i] = c]
    ELSE c

ToLower(s) == [i \in 1..Len(s) |-> LowerChar(s[i])]

\* Go's s < t on strings: bytewise lexicographic
StrLess(s, t) ==
    \E k \in 1..(Len(t)) :
        /\ \A j \in 1..(k - 1) : j <= Len(s) /\ s[j] = t[j]
        /\ \/ k = Len(s) + 1
           \/ k <= Len(s) /\ Code(s[k]) < Code(t[k])

HasSuffixSlash(key) == Len(key) > 0 /\ key[Len(key)] = "/"

\* index of the first "/" of key, 0 when there is none
FirstSlash(key) ==
    IF \E i \in 1..Len(key) : key[i] = "/"
    THEN CHOOSE i \in 1..Len(key) : key[i] = "/" /\ \A j \in 1..(i - 1) : key[j] # "/"
    ELSE 0

\* index of the last "/" of s, 0 when there is none
LastSlash(s) ==
    IF \E i \in 1..Len(s) : s[i] = "/"
    THEN CHOOSE i \in 1..Len(s) : s[i] = "/" /\ \A j \in (i + 1)..Len(s) : s[j] # "/"
    ELSE 0

RECURSIVE SumSeq(_)
SumSeq(s) == IF s = <<>> THEN 0 ELSE s[1] + SumSeq(Tail(s))

RECURSIVE SumSet(_, _)
\* sum of f[x] over the finite set S
SumSet(f, S) ==
    IF S = {} THEN 0
    ELSE LET x == CHOOSE y \in S : TRUE IN f[x] + SumSet(f, S \ {x})

\* all sequences over S of length at most n
SeqsUpTo(S, n) == UNION {[1..k -> S] : k \in 0..n}

Min2(a, b) == IF a < b THEN a ELSE b

-----------------------------------------------------------------------------
(* Records of the store.  ETag is copied by listObjects and read by nobody. *)

Rec(key, size, modified, class) ==
    [Key |-> key, Size |-> size, LastModified |-> modified, StorageClass |-> class]

\* time.Time{}: the zero time; every real timestamp is later
ZeroTime == 0

KeyDated == <<"2","0","2","3","/","0","1","/","a">>
KeyLogs == <<"l","o","g","s","/","a">>
KeyTmpCsv == <<"t","m","p","/","b",".","C","S","V">>
KeyReadme == <<"R","E","A","D","M","E">>

\* what the store may hold in the pipeline specification
ListCatalog ==
    { Rec(KeyDated, 1, 2, ""),
      Rec(KeyLogs, 2, 1, "STANDARD"),
      Rec(KeyTmpCsv, 1024, 3, "GLACIER"),
      Rec(KeyReadme, 0, 2, "MY_CLASS") }

-----------------------------------------------------------------------------
(* bucket.go: the streaming summary *)

EmptySummary ==
    [TotalObjects |-> 0, TotalSize |-> 0, StorageClasses |-> <<>>, EstimatedCost |-> 0]

\* the raw class of the record, without the STANDARD default: the mutant of StorageClassOf
StorageClassRaw(rec) == rec.StorageClass

StorageClassOf(rec) ==
    IF rec.StorageClass = "" THEN "STANDARD" ELSE rec.StorageClass

\* summary.StorageClasses[class]: the zero value when the class is absent
StatsOf(classes, class) ==
    IF class \in DOMAIN classes THEN classes[class] ELSE [Count |-> 0, Size |-> 0]

\* a record that is counted in the totals only when it has content: the mutant of AddRecord
AddRecordSkipEmpty(s, rec) ==
    LET class == StorageClassOf(rec)
        stats == StatsOf(s.StorageClasses, class)
        new == [Count |-> stats.Count + 1, Size |-> stats.Size + rec.Size]
    IN  [s EXCEPT !.TotalObjects = IF rec.Size = 0 THEN @ ELSE @ + 1,
                  !.TotalSize = @ + rec.Size,
                  !.StorageClasses =
                      [c \in DOMAIN s.StorageClasses \cup {class} |->
                          IF c = class THEN new ELSE s.StorageClasses[c]]]

\* the body of the range loop: the summary after one record
AddRecord(s, rec) ==
    LET class == StorageClassOf(rec)
        stats == StatsOf(s.StorageClasses, class)
        new == [Count |-> stats.Count + 1, Size |-> stats.Size + rec.Size]
    IN  [s EXCEPT !.TotalObjects = @ + 1,
                  !.TotalSize = @ + rec.Size,
                  !.StorageClasses =
                      [c \in DOMAIN s.StorageClasses \cup {class} |->
                          IF c = class THEN new ELSE s.StorageClasses[c]]]

\* the types.ObjectMetadata appended for a record
ObjectOf(rec) == Rec(rec.Key, rec.Size, rec.LastModified, StorageClassOf(rec))

\* price per GiB-month in units of 10^-5 dollars
PriceE5(class) ==
    CASE class = "STANDARD" -> 2300
      [] class = "INTELLIGENT_TIERING" -> 2300
      [] class = "STANDARD_IA" -> 1250
      [] class = "ONEZONE_IA" -> 1000
      [] class = "GLACIER" -> 400
      [] class = "GLACIER_IR" -> 400
      [] class = "DEEP_ARCHIVE" -> 99
      [] OTHER -> 2300

\* calculateCost, exactly: the cost in dollars is this number / (10^5 * 2^30)
CalculateCost(classes) ==
    SumSet([c \in DOMAIN classes |-> classes[c].Size * PriceE5(c)], DOMAIN classes)

-----------------------------------------------------------------------------
(* metadata.go *)

DirectoryMarker == <<"[directory]">>
NoExtensionMarker == <<"[no extension]">>

RECURSIVE StripTrailingSlashes(_)
StripTrailingSlashes(p) ==
    IF Len(p) > 0 /\ p[Len(p)] = "/"
    THEN StripTrailingSlashes(SubSeq(p, 1, Len(p) - 1))
    ELSE p

\* filepath.Base with "/" as the separator
Base(path) ==
    IF path = <<>> THEN <<".">>
    ELSE LET s == StripTrailingSlashes(path)
             t == SubSeq(s, LastSlash(s) + 1, Len(s))
         IN  IF t = <<>> THEN <<"/">> ELSE t

\* filepath.Ext: from the last "." of the last element, "" when it has none
Ext(path) ==
    LET dots == {i \in 1..Len(path) :
                    path[i] = "." /\ \A j \in i..Len(path) : path[j] # "/"}
    IN  IF dots = {} THEN <<>>
        ELSE LET i == CHOOSE d \in dots : \A e \in dots : e <= d
             IN  SubSeq(path, i, Len(path))

\* strings.TrimPrefix(ext, ".")
TrimDot(ext) == IF Len(ext) > 0 /\ ext[1] = "." THEN Tail(ext) ELSE ext

getFileExtension(key) ==
    LET ext == Ext(Base(key))
    IN  IF ext = <<>>
        THEN IF HasSuffixSlash(key) THEN DirectoryMarker ELSE NoExtensionMarker
        ELSE ToLower(TrimDot(ext))

RECURSIVE FileTypeStats(_, _)
\* summary.FileTypeStats[ext]++ for each object, starting from the map m
FileTypeStats(objs, m) ==
    IF objs = <<>> THEN m
    ELSE LET ext == getFileExtension(objs[1].Key)
             old == IF ext \in DOMAIN m THEN m[ext] ELSE 0
         IN  FileTypeStats(Tail(objs),
                 [e \in DOMAIN m \cup {ext} |-> IF e = ext THEN old + 1 ELSE m[e]])

RECURSIVE DateRangeOf(_, _)
\* the Before / After updates of the loop, starting from the range r
DateRangeOf(objs, r) ==
    IF objs = <<>> THEN r
    ELSE LET t == objs[1].LastModified
             e == IF t < r.Earliest THEN t ELSE r.Earliest
             l == IF t > r.Latest THEN t ELSE r.Latest
         IN  DateRangeOf(Tail(objs), [Earliest |-> e, Latest |-> l])

SizeBucket(label, min, max) == [Label |-> label, Min |-> min, Max |-> max, Count |-> 0]

InitialBuckets ==
    << SizeBucket("0-1KB", 0, 1024),
       SizeBucket("1KB-1MB", 1024, 1024 * 1024),
       SizeBucket("1MB-100MB", 1024 * 1024, 100 * 1024 * 1024),
       SizeBucket("100MB-1GB", 100 * 1024 * 1024, 1024 * 1024 * 1024),
       SizeBucket("1GB+", 1024 * 1024 * 1024, -1) >>

\* a bucket whose upper bound is inclusive: the mutant of InBucket
InBucketInclusive(b, size) ==
    IF b.Max = -1 THEN size >= b.Min ELSE size >= b.Min /\ size <= b.Max

\* the test of the inner loop for bucket b
InBucket(b, size) ==
    IF b.Max = -1 THEN size >= b.Min ELSE size >= b.Min /\ size < b.Max

\* the inner loop: the first bucket that takes the size is incremented
CountSize(buckets, size) ==
    LET hits == {i \in 1..Len(buckets) : InBucket(buckets[i], size)}
    IN  IF hits = {} THEN buckets
        ELSE LET i == CHOOSE h \in hits : \A g \in hits : h <= g
             IN  [buckets EXCEPT ![i].Count = @ + 1]

RECURSIVE SizeDistributionOf(_, _)
SizeDistributionOf(objs, buckets) ==
    IF objs = <<>> THEN buckets
    ELSE SizeDistributionOf(Tail(objs), CountSize(buckets, objs[1].Size))

generateSizeDistribution(objs) == SizeDistributionOf(objs, InitialBuckets)

MetadataOf(objs) ==
    LET first == IF Len(objs) > 0 THEN objs[1].LastModified ELSE ZeroTime
    IN  [FileTypeStats |-> FileTypeStats(objs, <<>>),
         DateRange |-> DateRangeOf(objs, [Earliest |-> first, Latest |-> first]),
         SizeDistribution |-> generateSizeDistribution(objs)]

KeyBCsv == <<"a","/","B",".","C","S","V">>
KeyFolder == <<"f","o","l","d","e","r","/">>
KeyDottedDir == <<"m","y",".","d","i","r","/">>
KeyTarGz == <<"x",".","t","a","r",".","g","z">>
KeyDotInDir == <<"a",".","b","/","c">>
KeyTrailingDot == <<"f","i","l","e",".">>
KeyHidden == <<".","h","i","d","d","e","n">>

\* the collections AnalyzeMetadata is tried on: every shape of key, every
\* boundary of the histogram and its neighbour below
MetaCatalog ==
    { Rec(KeyBCsv, 0, 2, "STANDARD"),
      Rec(KeyFolder, 1023, 1, "STANDARD"),
      Rec(KeyReadme, 1024, 3, "STANDARD"),
      Rec(KeyDottedDir, 1024 * 1024 - 1, 2, "STANDARD"),
      Rec(KeyTarGz, 1024 * 1024, 1, "STANDARD"),
      Rec(KeyDotInDir, 100 * 1024 * 1024 - 1, 3, "GLACIER"),
      Rec(KeyTrailingDot, 100 * 1024 * 1024, 2, "GLACIER"),
      Rec(KeyHidden, 1024 * 1024 * 1024 - 1, 1, "GLACIER"),
      Rec(KeyTmpCsv, 1024 * 1024 * 1024, 3, "GLACIER") }

-----------------------------------------------------------------------------
(* partition.go *)

\* The regular expressions of detectDatePartitions.  Each is a fixed-length
\* shape: "#" stands for \d (one of 0-9), every other byte for itself.
PatYmdHive ==
    [name |-> "year=YYYY/month=MM/day=DD",
     shape |-> <<"y","e","a","r","=","#","#","#","#","/","m","o","n","t","h","=","#","#","/","d","a","y","=","#","#">>]
PatYmHive ==
    [name |-> "year=YYYY/month=MM",
     shape |-> <<"y","e","a","r","=","#","#","#","#","/","m","o","n","t","h","=","#","#">>]
PatYmdPath ==
    [name |-> "YYYY/MM/DD", shape |-> <<"#","#","#","#","/","#","#","/","#","#">>]
PatYmPath ==
    [name |-> "YYYY/MM", shape |-> <<"#","#","#","#","/","#","#">>]
PatDashed ==
    [name |-> "YYYY-MM-DD", shape |-> <<"#","#","#","#","-","#","#","-","#","#">>]
PatDt ==
    [name |-> "dt=YYYY-MM-DD",
     shape |-> <<"d","t","=","#","#","#","#","-","#","#","-","#","#">>]

\* the month pattern listed before the day pattern: the mutant of Patterns
PatternsCoarseFirst == <<PatYmHive, PatYmdHive, PatYmdPath, PatYmPath, PatDashed, PatDt>>

\* the list detectDatePartitions ranges over, in its order
Patterns == <<PatYmdHive, PatYmHive, PatYmdPath, PatYmPath, PatDashed, PatDt>>

HierarchicalName == "hierarchical (top-level prefix)"

\* the shape matches key at position i
MatchAt(key, shape, i) ==
    /\ i + Len(shape) - 1 <= Len(key)
    /\ \A k \in 1..Len(shape) :
          IF shape[k] = "#" THEN key[i + k - 1] \in Digits
          ELSE key[i + k - 1] = shape[k]

\* the rightmost match taken for the leftmost: the mutant of FindString
FindStringLast(key, shape) ==
    LET at == {i \in 1..Len(key) : MatchAt(key, shape, i)}
    IN  IF at = {} THEN <<>>
        ELSE LET i == CHOOSE a \in at : \A b \in at : a >= b
             IN  SubSeq(key, i, i + Len(shape) - 1)

\* regex.FindStringSubmatch(key)[0]: the leftmost match, <<>> when there is none
FindString(key, shape) ==
    LET at == {i \in 1..Len(key) : MatchAt(key, shape, i)}
    IN  IF at = {} THEN <<>>
        ELSE LET i == CHOOSE a \in at : \A b \in at : a <= b
             IN  SubSeq(key, i, i + Len(shape) - 1)

\* every key kept as an example: the mutant of Accumulate
AccumulateUncapped(m, mapKey, prefix, patternName, obj) ==
    IF mapKey \in DOMAIN m
    THEN [m EXCEPT ![mapKey] =
             [@ EXCEPT !.ObjectCount = @ + 1,
                       !.TotalSize = @ + obj.Size,
                       !.Examples = Append(@, obj.Key)]]
    ELSE [k \in DOMAIN m \cup {mapKey} |->
             IF k = mapKey
             THEN [Prefix |-> prefix, Pattern |-> patternName, ObjectCount |-> 1,
                   TotalSize |-> obj.Size, Examples |-> <<obj.Key>>]
             ELSE m[k]]

\* The body both grouping loops share: the map after obj joined the group
\* stored under mapKey, created with the given prefix and pattern name.
Accumulate(m, mapKey, prefix, patternName, obj) ==
    IF mapKey \in DOMAIN m
    THEN [m EXCEPT ![mapKey] =
             [@ EXCEPT !.ObjectCount = @ + 1,
                       !.TotalSize = @ + obj.Size,
                       !.Examples = IF Len(@) < 3 THEN Append(@, obj.Key) ELSE @]]
    ELSE [k \in DOMAIN m \cup {mapKey} |->
             IF k = mapKey
             THEN [Prefix |-> prefix, Pattern |-> patternName, ObjectCount |-> 1,
                   TotalSize |-> obj.Size, Examples |-> <<obj.Key>>]
             ELSE m[k]]

RECURSIVE PatternMap(_, _, _, _)
\* the loop of groupByPattern, starting from the map m
PatternMap(objs, patternName, shape, m) ==
    IF objs = <<>> THEN m
    ELSE LET prefix == FindString(objs[1].Key, shape)
         IN  PatternMap(Tail(objs), patternName, shape,
                 IF prefix # <<>>
                 THEN Accumulate(m, prefix, prefix, patternName, objs[1])
                 ELSE m)

RECURSIVE SortByPrefix(_)
\* sort.Slice by Prefix ascending; the prefixes of a map's values are distinct
SortByPrefix(S) ==
    IF S = {} THEN <<>>
    ELSE LET p == CHOOSE q \in S : \A r \in S \ {q} : StrLess(q.Prefix, r.Prefix)
         IN  <<p>> \o SortByPrefix(S \ {p})

RangeOf(m) == {m[k] : k \in DOMAIN m}

groupByPattern(objs, patternName, shape) ==
    SortByPrefix(RangeOf(PatternMap(objs, patternName, shape, <<>>)))

RECURSIVE TotalMatched(_)
\* the totalMatched loop of detectDatePartitions
TotalMatched(parts) ==
    IF parts = <<>> THEN 0 ELSE parts[1].ObjectCount + TotalMatched(Tail(parts))

\* a pattern accepted at exactly one half: the mutant of CoversMajority
CoversHalf(matched, total) == 2 * matched >= total

\* float64(totalMatched)/float64(len(objects)) > 0.5; for counts below 2^52
\* the quotient of two exact integers exceeds 0.5 exactly when 2m > n
CoversMajority(matched, total) == 2 * matched > total

RECURSIVE PrefixMap(_, _)
\* the loop of detectHierarchicalPartitions, starting from the map m
PrefixMap(objs, m) ==
    IF objs = <<>> THEN m
    ELSE LET key == objs[1].Key
             cut == FirstSlash(key)
             prefix == SubSeq(key, 1, cut - 1)
         IN  PrefixMap(Tail(objs),
                 IF cut > 0
                 THEN Accumulate(m, prefix, Append(prefix, "/"), HierarchicalName, objs[1])
                 ELSE m)

\* a lone prefix reported as a partition: the mutant of TooFewPrefixes
NoPrefixes(n) == n < 1

\* len(prefixMap) <= 1
TooFewPrefixes(n) == n <= 1

\* the comparison reversed: the mutant of HierLess
HierLessAscending(p, q) == p.ObjectCount < q.ObjectCount

\* the less function handed to sort.Slice by detectHierarchicalPartitions
HierLess(p, q) == p.ObjectCount > q.ObjectCount

RECURSIVE SortedByHierLess(_)
\* Every order sort.Slice can leave the values of the map in: the map is
\* ranged over in any order and the sort is not stable, so partitions that
\* compare equal may end up either way round.
SortedByHierLess(S) ==
    IF S = {} THEN {<<>>}
    ELSE UNION { {<<p>> \o rest : rest \in SortedByHierLess(S \ {p})} :
                 p \in {q \in S : \A x \in S : ~HierLess(x, q)} }

\* the results detectHierarchicalPartitions can return
detectHierarchicalPartitions(objs) ==
    LET m == PrefixMap(objs, <<>>)
    IN  IF TooFewPrefixes(Cardinality(DOMAIN m)) THEN {<<>>}
        ELSE SortedByHierLess(RangeOf(m))

KeyYmdHive == <<"y","e","a","r","=","2","0","2","3","/","m","o","n","t","h","=","0","1","/","d","a","y","=","1","5","/","a">>
KeyYmHive == <<"y","e","a","r","=","2","0","2","3","/","m","o","n","t","h","=","0","2","/","c">>
KeyYmdPath == <<"2","0","2","3","/","0","1","/","1","5","/","d">>
\* a key that holds two matches of YYYY/MM
KeyYmPath ==
    <<"2","0","2","3","/","0","2","/","e","/","2","0","2","4","/","0","3">>
KeyDashed == <<"l","o","g","s","/","2","0","2","3","-","0","1","-","1","5",".","l","o","g">>
KeyDt == <<"d","t","=","2","0","2","3","-","0","1","-","1","5","/","f">>
KeyTmp == <<"t","m","p","/","b">>
KeyMisc == <<"m","i","s","c","/","c">>

\* the collections the date phase is tried on: a key for every pattern and
\* one without any date
DateCatalog ==
    { Rec(KeyYmdHive, 1, 1, "STANDARD"),
      Rec(KeyYmHive, 2, 1, "STANDARD"),
      Rec(KeyYmdPath, 4, 1, "STANDARD"),
      Rec(KeyYmPath, 8, 1, "STANDARD"),
      Rec(KeyDashed, 16, 1, "STANDARD"),
      Rec(KeyDt, 32, 1, "STANDARD"),
      Rec(KeyReadme, 64, 1, "STANDARD") }

KeyLogsB == <<"l","o","g","s","/","b">>

\* Two keys under logs/ and two under 2023/01, so that the members of a group
\* can be told apart, and a key under a second prefix.
ExampleCatalog ==
    { Rec(KeyLogs, 1, 1, "STANDARD"),
      Rec(KeyLogsB, 2, 1, "STANDARD"),
      Rec(KeyTmp, 4, 1, "STANDARD"),
      Rec(KeyDated, 8, 1, "STANDARD"),
      Rec(KeyYmdPath, 16, 1, "STANDARD") }

KeyDashedFlat == <<"2","0","2","3","-","0","1","-","1","5",".","l","o","g">>

\* the collections the hierarchical phase is tried on: three top-level
\* prefixes and a dated key without "/"
HierCatalog ==
    { Rec(KeyLogs, 1, 1, "STANDARD"),
      Rec(KeyTmp, 2, 1, "STANDARD"),
      Rec(KeyMisc, 4, 1, "STANDARD"),
      Rec(KeyDashedFlat, 8, 1, "STANDARD") }

-----------------------------------------------------------------------------
(* AnalyzeBucket and listObjects *)

\* ba.limit > 0 && processedCount >= ba.limit
LimitHit == limit > 0 /\ processedCount >= limit

\* input.MaxKeys never set, so every page is a full one: the mutant of MaxKeysFor
MaxKeysUnset(lim, processed) == PageKeys

\* The most keys the next page may hold: input.MaxKeys when the code sets it,
\* the store's page size otherwise.
MaxKeysFor(lim, processed) ==
    IF lim > 0 /\ lim - processed < PageKeys THEN lim - processed ELSE PageKeys

\* the error of AnalyzeBucket dropped and the pipeline run on: the mutant of
\* AfterAnalyzeError
AnalyzeErrorIgnored == "metadata"

\* where ProfileBucket goes when AnalyzeBucket returns an error: it returns it
AfterAnalyzeError == "failed"

listingUnchanged == UNCHANGED <<bucket, limit, metadata, patIdx, datePartitions,
                                partitions, phases, written, poolVars>>

GetCreationDate ==
    /\ pc = "creation"
    /\ \E found \in BOOLEAN :
          IF found
          THEN /\ pc' = "list"
               /\ UNCHANGED <<summary, objects, err>>
          ELSE /\ pc' = AfterAnalyzeError
               /\ summary' = NoValue
               /\ objects' = <<>>
               /\ err' = "failed to analyze bucket: failed to get bucket creation date"
    /\ UNCHANGED <<continuationToken, page, isTruncated, nextToken, processedCount>>
    /\ listingUnchanged

LimitReached ==
    /\ pc = "list"
    /\ LimitHit
    /\ pc' = "cost"
    /\ UNCHANGED <<continuationToken, page, isTruncated, nextToken, processedCount,
                   objects, summary, err>>
    /\ listingUnchanged

\* One ListObjectsV2 call that succeeds.  The store hands out the records after
\* the continuation token, at least one while any is left and never more than
\* the page may hold, and says whether more are left.
ListPage ==
    /\ pc = "list"
    /\ ~LimitHit
    /\ LET left == Len(bucket) - continuationToken
           most == Min2(MaxKeysFor(limit, processedCount), left)
       IN  \E n \in (IF left = 0 THEN {0} ELSE 1..most) :
              /\ page' = SubSeq(bucket, continuationToken + 1, continuationToken + n)
              /\ isTruncated' = (continuationToken + n < Len(bucket))
              /\ nextToken' = continuationToken + n
    /\ pc' = "process"
    /\ UNCHANGED <<continuationToken, processedCount, objects, summary, err>>
    /\ listingUnchanged

\* One ListObjectsV2 call that fails.
ListPageFails ==
    /\ pc = "list"
    /\ ~LimitHit
    /\ pc' = AfterAnalyzeError
    /\ summary' = NoValue
    /\ objects' = <<>>
    /\ err' = "failed to analyze bucket: failed to list objects"
    /\ UNCHANGED <<continuationToken, page, isTruncated, nextToken, processedCount>>
    /\ listingUnchanged

\* One turn of the range loop over result.Contents.
ProcessRecord ==
    /\ pc = "process"
    /\ page # <<>>
    /\ summary' = AddRecord(summary, Head(page))
    /\ objects' = Append(objects, ObjectOf(Head(page)))
    /\ processedCount' = processedCount + 1
    /\ page' = Tail(page)
    /\ UNCHANGED <<pc, continuationToken, isTruncated, nextToken, err>>
    /\ listingUnchanged

\* The page is processed: leave the loop or go round with the next token.
PageDone ==
    /\ pc = "process"
    /\ page = <<>>
    /\ IF ~isTruncated
       THEN /\ pc' = "cost"
            /\ UNCHANGED continuationToken
       ELSE /\ pc' = "list"
            /\ continuationToken' = nextToken
    /\ UNCHANGED <<page, isTruncated, nextToken, processedCount, objects, summary, err>>
    /\ listingUnchanged

EstimateCost ==
    /\ pc = "cost"
    /\ summary' = [summary EXCEPT !.EstimatedCost = CalculateCost(summary.StorageClasses)]
    /\ pc' = "metadata"
    /\ UNCHANGED <<continuationToken, page, isTruncated, nextToken, processedCount,
                   objects, err>>
    /\ listingUnchanged

-----------------------------------------------------------------------------
(* ProfileBucket, steps 2 to 4 *)

storeUnchanged == UNCHANGED <<bucket, limit, continuationToken, page, isTruncated,
                              nextToken, processedCount, objects, summary, poolVars>>

AnalyzeMetadata ==
    /\ pc = "metadata"
    /\ metadata' = MetadataOf(objects)
    /\ pc' = "partitions"
    /\ UNCHANGED <<patIdx, datePartitions, partitions, phases, written, err>>
    /\ storeUnchanged

\* the early return of AnalyzePartitions on an empty collection: the mutant
\* NeverEmpty runs the phases on it too
NeverEmpty(objs) == FALSE

\* len(objects) == 0
IsEmpty(objs) == Len(objs) = 0

\* AnalyzePartitions up to the call of detectDatePartitions
StartPartitions ==
    /\ pc = "partitions"
    /\ IF IsEmpty(objects)
       THEN /\ partitions' = <<>>
            /\ pc' = "write_summary"
            /\ UNCHANGED <<patIdx, phases>>
       ELSE /\ pc' = "date"
            /\ patIdx' = 1
            /\ phases' = phases \cup {"date"}
            /\ UNCHANGED partitions
    /\ UNCHANGED <<datePartitions, metadata, written, err>>
    /\ storeUnchanged

\* One turn of the loop over the patterns in detectDatePartitions: return the
\* groups of the pattern being tried, go on to the next pattern, or leave the
\* loop and return nil.
TryPattern ==
    /\ pc = "date"
    /\ LET grouped == groupByPattern(objects, Patterns[patIdx].name, Patterns[patIdx].shape)
       IN  IF Len(grouped) > 0 /\ CoversMajority(TotalMatched(grouped), Len(objects))
           THEN /\ datePartitions' = grouped
                /\ pc' = "after_date"
                /\ UNCHANGED patIdx
           ELSE IF patIdx < Len(Patterns)
           THEN /\ patIdx' = patIdx + 1
                /\ UNCHANGED <<pc, datePartitions>>
           ELSE /\ datePartitions' = <<>>
                /\ pc' = "after_date"
                /\ UNCHANGED patIdx
    /\ UNCHANGED <<partitions, phases, metadata, written, err>>
    /\ storeUnchanged

\* AnalyzePartitions after detectDatePartitions returned
\* the fallback run whatever the date phase found: the mutant of FallsBack
AlwaysFallsBack(found) == TRUE

\* the hierarchical phase runs only when the date phase found nothing
FallsBack(found) == Len(found) = 0

AfterDate ==
    /\ pc = "after_date"
    /\ partitions' = partitions \o datePartitions
    /\ IF FallsBack(datePartitions)
       THEN /\ pc' = "hier"
            /\ phases' = phases \cup {"hier"}
       ELSE /\ pc' = "write_summary"
            /\ UNCHANGED phases
    /\ UNCHANGED <<patIdx, datePartitions, metadata, written, err>>
    /\ storeUnchanged

DetectHierarchical ==
    /\ pc = "hier"
    /\ \E result \in detectHierarchicalPartitions(objects) :
          partitions' = partitions \o result
    /\ pc' = "write_summary"
    /\ UNCHANGED <<patIdx, datePartitions, phases, metadata, written, err>>
    /\ storeUnchanged

\* One of the three writes of step 4, which the writer may fail.
Write(at, file, then, failure) ==
    /\ pc = at
    /\ \E ok \in BOOLEAN :
          IF ok
          THEN /\ written' = written \cup {file}
               /\ pc' = then
               /\ UNCHANGED err
          ELSE /\ pc' = "failed"
               /\ err' = failure
               /\ UNCHANGED written
    /\ UNCHANGED <<patIdx, datePartitions, partitions, phases, metadata>>
    /\ storeUnchanged

WriteBucketSummary ==
    Write("write_summary", "summary", "write_metadata", "failed to write bucket summary")

WriteMetadataSummary ==
    Write("write_metadata", "metadata", "write_partitions", "failed to write metadata summary")

WritePartitions ==
    Write("write_partitions", "partitions", "done", "failed to write partitions")

-----------------------------------------------------------------------------
(* ProfileMultipleBuckets: the worker pool *)

\* maxWorkers never lowered to the number of buckets nor held at the cap: the
\* mutant of PoolSize
PoolUncapped(totalBuckets) == totalBuckets

\* maxWorkers: the cap, or the number of buckets when that is smaller
PoolSize(totalBuckets) ==
    IF totalBuckets < MaxWorkers THEN totalBuckets ELSE MaxWorkers

\* make(chan string, totalBuckets): the capacity of the work channel
ChanCap(totalBuckets) == totalBuckets

\* the channel left open by the producer: the mutant of Closed
StillOpen == FALSE

\* close(bucketChan)
Closed == TRUE

\* a Lock that never waits: the mutant of MutexFree
MutexNeverHeld == TRUE

\* mu.Lock() returns only when nobody holds the mutex
MutexFree == mu = 0

\* where the main goroutine stands once it has sent that many names
AfterSend(n) == IF n < Len(bucketNames) THEN "send" ELSE "close"

\* where the main goroutine stands once it has started that many workers
AfterSpawn(n) == IF n < maxWorkers THEN "spawn" ELSE AfterSend(0)

\* what a worker has read of the shared counters inside a critical section
NoTmp == [processedCount |-> 0, failedBuckets |-> <<>>, successCount |-> 0]

\* nothing is known of a bucket before a worker takes it
NewLedger(names) ==
    [b \in {names[k] : k \in 1..Len(names)} |->
        [taken |-> 0, lookups |-> 0, profiles |-> 0, outcome |-> "none"]]

\* the pool before ProfileMultipleBuckets is called
PoolIdle ==
    /\ bucketNames = <<>>
    /\ maxWorkers = 0
    /\ mainPc = "idle"
    /\ spawned = 0
    /\ sent = 0
    /\ bucketChan = <<>>
    /\ chanClosed = FALSE
    /\ wg = 0
    /\ mu = 0
    /\ wpc = <<>>
    /\ section = <<>>
    /\ bucketName = <<>>
    /\ tmp = <<>>
    /\ successCount = 0
    /\ failedBuckets = <<>>
    /\ poolProcessedCount = 0
    /\ ledger = <<>>
    /\ printed = NoValue
    /\ ret = NoValue

pipelineUnchanged ==
    UNCHANGED <<pc, bucket, limit, continuationToken, page, isTruncated, nextToken,
                processedCount, objects, summary, metadata, patIdx, datePartitions,
                partitions, phases, written, err>>

inputUnchanged == UNCHANGED <<bucketNames, maxWorkers>> /\ pipelineUnchanged

mainUnchanged == UNCHANGED <<mainPc, spawned, sent, chanClosed, printed, ret>>

sharedUnchanged == UNCHANGED <<successCount, failedBuckets, poolProcessedCount>>

\* wg.Add(1); go func(workerID int) {...}(i)
Spawn ==
    /\ mainPc = "spawn"
    /\ wg' = wg + 1
    /\ wpc' = [wpc EXCEPT ![spawned + 1] = "recv"]
    /\ spawned' = spawned + 1
    /\ mainPc' = AfterSpawn(spawned + 1)
    /\ UNCHANGED <<sent, bucketChan, chanClosed, mu, section, bucketName, tmp,
                   ledger, printed, ret>>
    /\ sharedUnchanged
    /\ inputUnchanged

\* bucketChan <- bucketName, which waits while the buffer is full
Send ==
    /\ mainPc = "send"
    /\ Len(bucketChan) < ChanCap(Len(bucketNames))
    /\ bucketChan' = Append(bucketChan, bucketNames[sent + 1])
    /\ sent' = sent + 1
    /\ mainPc' = AfterSend(sent + 1)
    /\ UNCHANGED <<spawned, chanClosed, wg, mu, wpc, section, bucketName, tmp,
                   ledger, printed, ret>>
    /\ sharedUnchanged
    /\ inputUnchanged

\* close(bucketChan)
Close ==
    /\ mainPc = "close"
    /\ chanClosed' = Closed
    /\ mainPc' = "wait"
    /\ UNCHANGED <<spawned, sent, bucketChan, wg, mu, wpc, section, bucketName,
                   tmp, ledger, printed, ret>>
    /\ sharedUnchanged
    /\ inputUnchanged

\* wg.Wait() returns when every worker has called Done
Wait ==
    /\ mainPc = "wait"
    /\ wg = 0
    /\ mainPc' = "summary"
    /\ UNCHANGED <<spawned, sent, bucketChan, chanClosed, wg, mu, wpc, section,
                   bucketName, tmp, ledger, printed, ret>>
    /\ sharedUnchanged
    /\ inputUnchanged

\* the summary is printed from the shared counters and nil is returned
Summarize ==
    /\ mainPc = "summary"
    /\ printed' = [total |-> Len(bucketNames), success |-> successCount,
                   failed |-> failedBuckets]
    /\ ret' = "nil"
    /\ mainPc' = "returned"
    /\ UNCHANGED <<spawned, sent, bucketChan, chanClosed, wg, mu, wpc, section,
                   bucketName, tmp, ledger>>
    /\ sharedUnchanged
    /\ inputUnchanged

\* for bucketName := range bucketChan: a name is there to take
Receive(w) ==
    /\ wpc[w] = "recv"
    /\ bucketChan # <<>>
    /\ bucketName' = [bucketName EXCEPT ![w] = Head(bucketChan)]
    /\ bucketChan' = Tail(bucketChan)
    /\ ledger' = [ledger EXCEPT ![Head(bucketChan)].taken = @ + 1]
    /\ wpc' = [wpc EXCEPT ![w] = "region"]
    /\ UNCHANGED <<wg, mu, section, tmp>>
    /\ mainUnchanged
    /\ sharedUnchanged
    /\ inputUnchanged

\* the range loop ends on a closed and drained channel; defer wg.Done()
RangeEnds(w) ==
    /\ wpc[w] = "recv"
    /\ bucketChan = <<>>
    /\ chanClosed
    /\ wpc' = [wpc EXCEPT ![w] = "exit"]
    /\ wg' = wg - 1
    /\ UNCHANGED <<bucketChan, mu, section, bucketName, tmp, ledger>>
    /\ mainUnchanged
    /\ sharedUnchanged
    /\ inputUnchanged

\* getRegion(ctx, bucketName), which may fail
GetRegion(w) ==
    /\ wpc[w] = "region"
    /\ \E ok \in BOOLEAN :
          /\ ledger' = [ledger EXCEPT ![bucketName[w]] =
                           [@ EXCEPT !.lookups = @ + 1,
                                     !.outcome = IF ok THEN @ ELSE "region_failed"]]
          /\ section' = [section EXCEPT ![w] = IF ok THEN "progress" ELSE "regfail"]
    /\ wpc' = [wpc EXCEPT ![w] = "lock"]
    /\ UNCHANGED <<bucketChan, wg, mu, bucketName, tmp>>
    /\ mainUnchanged
    /\ sharedUnchanged
    /\ inputUnchanged

\* mu.Lock()
Lock(w) ==
    /\ wpc[w] = "lock"
    /\ MutexFree
    /\ mu' = w
    /\ wpc' = [wpc EXCEPT ![w] = "load"]
    /\ UNCHANGED <<bucketChan, wg, section, bucketName, tmp, ledger>>
    /\ mainUnchanged
    /\ sharedUnchanged
    /\ inputUnchanged

\* the reads of processedCount++, append(failedBuckets, ...), successCount++
Load(w) ==
    /\ wpc[w] = "load"
    /\ tmp' = [tmp EXCEPT ![w] = [processedCount |-> poolProcessedCount,
                                  failedBuckets |-> failedBuckets,
                                  successCount |-> successCount]]
    /\ wpc' = [wpc EXCEPT ![w] = "store"]
    /\ UNCHANGED <<bucketChan, wg, mu, section, bucketName, ledger>>
    /\ mainUnchanged
    /\ sharedUnchanged
    /\ inputUnchanged

\* the writes of the critical section the worker is in
Store(w) ==
    /\ wpc[w] = "store"
    /\ poolProcessedCount' =
          IF section[w] \in {"regfail", "progress"}
          THEN tmp[w].processedCount + 1 ELSE poolProcessedCount
    /\ failedBuckets' =
          IF section[w] \in {"regfail", "profail"}
          THEN Append(tmp[w].failedBuckets, bucketName[w]) ELSE failedBuckets
    /\ successCount' =
          IF section[w] = "success" THEN tmp[w].successCount + 1 ELSE successCount
    /\ wpc' = [wpc EXCEPT ![w] = "unlock"]
    /\ UNCHANGED <<bucketChan, wg, mu, section, bucketName, tmp, ledger>>
    /\ mainUnchanged
    /\ inputUnchanged

\* mu.Unlock(), then continue with the next name or go on to ProfileBucket
Unlock(w) ==
    /\ wpc[w] = "unlock"
    /\ mu' = 0
    /\ wpc' = [wpc EXCEPT ![w] = IF section[w] = "progress" THEN "profile" ELSE "recv"]
    /\ section' = [section EXCEPT ![w] = "none"]
    /\ tmp' = [tmp EXCEPT ![w] = NoTmp]
    /\ UNCHANGED <<bucketChan, wg, bucketName, ledger>>
    /\ mainUnchanged
    /\ sharedUnchanged
    /\ inputUnchanged

\* p.ProfileBucket(ctx, bucketName, region), which returns nil or an error
ProfileBucket(w) ==
    /\ wpc[w] = "profile"
    /\ \E ok \in BOOLEAN :
          /\ ledger' = [ledger EXCEPT ![bucketName[w]] =
                           [@ EXCEPT !.profiles = @ + 1,
                                     !.outcome = IF ok THEN "ok" ELSE "profile_failed"]]
          /\ section' = [section EXCEPT ![w] = IF ok THEN "success" ELSE "profail"]
    /\ wpc' = [wpc EXCEPT ![w] = "lock"]
    /\ UNCHANGED <<bucketChan, wg, mu, bucketName, tmp>>
    /\ mainUnchanged
    /\ sharedUnchanged
    /\ inputUnchanged

\* the main goroutine
Main ==
    \/ Spawn
    \/ Send
    \/ Close
    \/ Wait
    \/ Summarize

\* the goroutine of worker w
Worker(w) ==
    \/ Receive(w)
    \/ RangeEnds(w)
    \/ GetRegion(w)
    \/ Lock(w)
    \/ Load(w)
    \/ Store(w)
    \/ Unlock(w)
    \/ ProfileBucket(w)

-----------------------------------------------------------------------------
(* Specifications *)

\* what every specification starts from, but for pc and the collections
Fresh ==
    /\ continuationToken = 0
    /\ page = <<>>
    /\ isTruncated = FALSE
    /\ nextToken = 0
    /\ processedCount = 0
    /\ metadata = NoValue
    /\ patIdx = 0
    /\ datePartitions = <<>>
    /\ partitions = <<>>
    /\ phases = {}
    /\ written = {}
    /\ err = "nil"

\* ProfileBucket on any bucket of the catalogue, with any limit
Init ==
    /\ pc = "creation"
    /\ bucket \in SeqsUpTo(ListCatalog, MaxBucket)
    /\ limit \in 0..MaxLimit
    /\ objects = <<>>
    /\ summary = EmptySummary
    /\ Fresh
    /\ PoolIdle

PartitionSteps ==
    \/ StartPartitions
    \/ TryPattern
    \/ AfterDate
    \/ DetectHierarchical

Next ==
    \/ GetCreationDate
    \/ LimitReached
    \/ ListPage
    \/ ListPageFails
    \/ ProcessRecord
    \/ PageDone
    \/ EstimateCost
    \/ AnalyzeMetadata
    \/ PartitionSteps
    \/ WriteBucketSummary
    \/ WriteMetadataSummary
    \/ WritePartitions

Spec == Init /\ [][Next]_vars

\* A collection handed straight to one analyzer.  The listing is no input of
\* the analyzers, so its variables stay as they start.
Handed(at, catalog, n) ==
    /\ pc = at
    /\ objects \in SeqsUpTo(catalog, n)
    /\ bucket = <<>>
    /\ limit = 0
    /\ summary = NoValue
    /\ Fresh
    /\ PoolIdle

\* AnalyzeMetadata on any collection of the metadata catalogue
InitMeta == Handed("metadata", MetaCatalog, MaxMetaObjects)

SpecMeta == InitMeta /\ [][AnalyzeMetadata]_vars

\* AnalyzePartitions on any collection of the date catalogue
InitDate == Handed("partitions", DateCatalog, MaxDateObjects)

SpecDate == InitDate /\ [][PartitionSteps]_vars

\* AnalyzePartitions on any collection of the examples catalogue
InitExamples == Handed("partitions", ExampleCatalog, MaxExampleObjects)

SpecExamples == InitExamples /\ [][PartitionSteps]_vars

\* AnalyzePartitions on any collection of the prefix catalogue
InitHier == Handed("partitions", HierCatalog, MaxHierObjects)

SpecHier == InitHier /\ [][PartitionSteps]_vars

\* ProfileMultipleBuckets on any number of buckets, after the pool is sized
\* and the channel made.  Names are told apart by their number.
InitPool ==
    /\ pc = "idle"
    /\ bucket = <<>>
    /\ limit = 0
    /\ objects = <<>>
    /\ summary = NoValue
    /\ Fresh
    /\ \E n \in 0..MaxBucketNames : bucketNames = [k \in 1..n |-> k]
    /\ maxWorkers = PoolSize(Len(bucketNames))
    /\ spawned = 0
    /\ sent = 0
    /\ mainPc = AfterSpawn(0)
    /\ bucketChan = <<>>
    /\ chanClosed = FALSE
    /\ wg = 0
    /\ mu = 0
    /\ wpc = [w \in 1..maxWorkers |-> "unborn"]
    /\ section = [w \in 1..maxWorkers |-> "none"]
    /\ bucketName = [w \in 1..maxWorkers |-> 0]
    /\ tmp = [w \in 1..maxWorkers |-> NoTmp]
    /\ successCount = 0
    /\ failedBuckets = <<>>
    /\ poolProcessedCount = 0
    /\ ledger = NewLedger(bucketNames)
    /\ printed = NoValue
    /\ ret = NoValue

NextPool ==
    \/ Spawn
    \/ Send
    \/ Close
    \/ Wait
    \/ Summarize
    \/ \E w \in DOMAIN wpc : Receive(w)
    \/ \E w \in DOMAIN wpc : RangeEnds(w)
    \/ \E w \in DOMAIN wpc : GetRegion(w)
    \/ \E w \in DOMAIN wpc : Lock(w)
    \/ \E w \in DOMAIN wpc : Load(w)
    \/ \E w \in DOMAIN wpc : Store(w)
    \/ \E w \in DOMAIN wpc : Unlock(w)
    \/ \E w \in DOMAIN wpc : ProfileBucket(w)

SpecPool == InitPool /\ [][NextPool]_vars

\* Every goroutine that can run does run: the scheduler starves none, and
\* each region lookup and each ProfileBucket call returns.
PoolFairness ==
    /\ WF_vars(Main)
    /\ \A w \in 1..MaxWorkers : WF_vars(w \in DOMAIN wpc /\ Worker(w))

SpecPoolFair == InitPool /\ [][NextPool]_vars /\ PoolFairness

-----------------------------------------------------------------------------
(* What the properties speak of *)

AnalyzeErrors ==
    { "failed to analyze bucket: failed to get bucket creation date",
      "failed to analyze bucket: failed to list objects" }

\* AnalyzeBucket has returned an error: there is no summary
AnalyzeFailed == pc = "failed" /\ err \in AnalyzeErrors

\* AnalyzeBucket has returned a summary and a collection
AnalyzeReturned ==
    \/ pc \in {"metadata", "partitions", "date", "after_date", "hier",
               "write_summary", "write_metadata", "write_partitions", "done"}
    \/ pc = "failed" /\ err \notin AnalyzeErrors

\* AnalyzeMetadata has returned
MetadataReturned == AnalyzeReturned /\ pc # "metadata"

\* AnalyzePartitions has returned
PartitionsReturned ==
    \/ pc \in {"write_summary", "write_metadata", "write_partitions", "done"}
    \/ pc = "failed" /\ err \notin AnalyzeErrors

RECURSIVE SumSizes(_)
SumSizes(objs) == IF objs = <<>> THEN 0 ELSE objs[1].Size + SumSizes(Tail(objs))

\* how many objects of the collection satisfy P
HowMany(objs, P(_)) == Cardinality({i \in 1..Len(objs) : P(objs[i])})

\* where the date pattern of that name stands in the code's list
PatternIndex(name) == CHOOSE i \in 1..Len(Patterns) : Patterns[i].name = name

\* how many keys of the collection hold a match of the date pattern of that name
Matching(objs, name) ==
    LET shape == Patterns[PatternIndex(name)].shape
        Holds(o) == \E i \in 1..Len(o.Key) : MatchAt(o.Key, shape, i)
    IN  HowMany(objs, Holds)

\* the six pattern names in the order the specification gives them
PriorityOrder ==
    << "year=YYYY/month=MM/day=DD", "year=YYYY/month=MM", "YYYY/MM/DD", "YYYY/MM",
       "YYYY-MM-DD", "dt=YYYY-MM-DD" >>

\* coverage > 0.5
Majority(objs, name) == 2 * Matching(objs, name) > Len(objs)

NoMajority(objs) == \A k \in 1..Len(PriorityOrder) : ~Majority(objs, PriorityOrder[k])

\* the key up to and including its first "/"
TopLevel(key) == SubSeq(key, 1, FirstSlash(key))

HasSlash(o) == FirstSlash(o.Key) > 0

\* the top-level prefixes of the keys that hold a "/"
TopLevels(objs) == {TopLevel(objs[i].Key) : i \in {j \in 1..Len(objs) : HasSlash(objs[j])}}

-----------------------------------------------------------------------------
(* Properties *)

\* C1: when AnalyzeBucket has returned successfully, whatever pages the store
\* served and with or without a limit, summary.TotalObjects is the length of
\* the returned collection and summary.TotalSize the sum of its sizes.
C1_TotalsMatchCollection ==
    AnalyzeReturned =>
        /\ summary.TotalObjects = Len(objects)
        /\ summary.TotalSize = SumSizes(objects)

\* C1 witness: a successful return of several objects listed over more than
\* one page under a limit.
C1_Witness ==
    /\ pc = "metadata"
    /\ limit > 0
    /\ continuationToken > 0
    /\ Len(objects) >= 2
    /\ summary.TotalSize > 0

\* C2: after every record of the listing pass the totals are the sums over the
\* storage classes, each class counts exactly the processed records of that
\* class, and a record without a class is counted under STANDARD, never under
\* the empty name.
C2_TotalsAreClassSums ==
    ~AnalyzeFailed =>
        LET classes == summary.StorageClasses
            done == SubSeq(bucket, 1, processedCount)
            ClassOf(r) == IF r.StorageClass = "" THEN "STANDARD" ELSE r.StorageClass
        IN  /\ summary.TotalObjects =
                   SumSet([c \in DOMAIN classes |-> classes[c].Count], DOMAIN classes)
            /\ summary.TotalSize =
                   SumSet([c \in DOMAIN classes |-> classes[c].Size], DOMAIN classes)
            /\ "" \notin DOMAIN classes
            /\ DOMAIN classes = {ClassOf(done[i]) : i \in 1..Len(done)}
            /\ \A c \in DOMAIN classes :
                  LET InClass(r) == ClassOf(r) = c
                  IN  classes[c].Count = HowMany(done, InClass)

\* C2 witness: in the middle of a page, after a record without a class and a
\* record of another class were processed.
C2_Witness ==
    /\ pc = "process"
    /\ page # <<>>
    /\ processedCount >= 2
    /\ \E i \in 1..processedCount : bucket[i].StorageClass = ""
    /\ Cardinality(DOMAIN summary.StorageClasses) >= 2

\* C3: the date phase returns the groups of a pattern only if that pattern
\* matches strictly more than half of the objects (exactly half is not
\* enough); when no pattern does, it returns nothing and the hierarchical
\* phase is run.
C3_StrictMajority ==
    /\ pc = "after_date" =>
          IF NoMajority(objects)
          THEN datePartitions = <<>>
          ELSE /\ datePartitions # <<>>
               /\ Majority(objects, datePartitions[1].Pattern)
    /\ (PartitionsReturned /\ objects # <<>> /\ NoMajority(objects)) => "hier" \in phases

\* C3 witness: YYYY/MM/DD matches exactly half of the objects, the rest hold
\* no date, and the hierarchical phase has run.
C3_Witness ==
    /\ PartitionsReturned
    /\ Len(objects) = 4
    /\ Matching(objects, "YYYY/MM/DD") = 2
    /\ Matching(objects, "YYYY/MM") = 2
    /\ Matching(objects, "YYYY-MM-DD") = 0
    /\ Matching(objects, "year=YYYY/month=MM") = 0
    /\ "hier" \in phases

\* C4: for a non-empty collection in which some date pattern has coverage
\* above 0.5, every returned partition carries the name of the first such
\* pattern in the fixed order, so every earlier pattern has coverage at most 0.5.
C4_FirstInPriorityOrder ==
    (PartitionsReturned /\ objects # <<>> /\ ~NoMajority(objects)) =>
        LET first == CHOOSE k \in 1..Len(PriorityOrder) :
                        /\ Majority(objects, PriorityOrder[k])
                        /\ \A j \in 1..(k - 1) : ~Majority(objects, PriorityOrder[j])
        IN  /\ partitions # <<>>
            /\ \A i \in 1..Len(partitions) : partitions[i].Pattern = PriorityOrder[first]

\* C4 witness: three of four keys are of the shape year=2023/month=01/day=15/...,
\* the fourth holds no date, and the finer pattern is the one reported.
C4_Witness ==
    /\ PartitionsReturned
    /\ Len(objects) = 4
    /\ Matching(objects, "year=YYYY/month=MM/day=DD") = 3
    /\ Matching(objects, "year=YYYY/month=MM") = 3
    /\ Matching(objects, "YYYY-MM-DD") = 0
    /\ Matching(objects, "YYYY/MM") = 0
    /\ partitions # <<>>
    /\ partitions[1].Pattern = "year=YYYY/month=MM/day=DD"

\* C5: a collection in which more than half of the keys hold a dt=YYYY-MM-DD
\* substring is reported with the pattern name dt=YYYY-MM-DD.
C5_DtPatternReported ==
    (PartitionsReturned /\ objects # <<>> /\ Majority(objects, "dt=YYYY-MM-DD")) =>
        /\ partitions # <<>>
        /\ \A i \in 1..Len(partitions) : partitions[i].Pattern = "dt=YYYY-MM-DD"

\* C6: when the hierarchical phase returns partitions, each has at least as
\* many objects as the one after it, and the prefixes are the keys' texts
\* before their first "/" with the "/" appended.
C6_DescendingByCount ==
    (PartitionsReturned /\ "hier" \in phases /\ partitions # <<>>) =>
        /\ \A i \in 1..(Len(partitions) - 1) :
              partitions[i].ObjectCount >= partitions[i + 1].ObjectCount
        /\ {partitions[i].Prefix : i \in 1..Len(partitions)} = TopLevels(objects)
        /\ \A i \in 1..Len(partitions) :
              /\ partitions[i].Pattern = HierarchicalName
              /\ \A e \in 1..Len(partitions[i].Examples) :
                    TopLevel(partitions[i].Examples[e]) = partitions[i].Prefix

\* C6 witness: three prefixes with three, two and one objects, returned in
\* that order, whatever order the objects came in.
C6_Witness ==
    /\ PartitionsReturned
    /\ "hier" \in phases
    /\ Len(partitions) = 3
    /\ partitions[1].ObjectCount = 3
    /\ partitions[2].ObjectCount = 2
    /\ partitions[3].ObjectCount = 1
    /\ objects[1].Key = KeyMisc
    /\ objects[2].Key = KeyTmp
    /\ partitions[1].Prefix = <<"l","o","g","s","/">>

\* C7: the hierarchical phase returns partitions exactly when the keys that
\* hold a "/" have more than one top-level prefix; with none or one,
\* AnalyzePartitions returns nothing; keys without "/" are in no group.
C7_MoreThanOnePrefix ==
    (PartitionsReturned /\ "hier" \in phases) =>
        /\ partitions # <<>> <=> Cardinality(TopLevels(objects)) > 1
        /\ partitions # <<>> =>
              /\ Len(partitions) = Cardinality(TopLevels(objects))
              /\ TotalMatched(partitions) = HowMany(objects, HasSlash)
              /\ \A i \in 1..Len(partitions) :
                    LET Under(o) == HasSlash(o) /\ TopLevel(o.Key) = partitions[i].Prefix
                    IN  partitions[i].ObjectCount = HowMany(objects, Under)

\* C7 witness: all keys with a "/" share one top-level prefix, a key without
\* "/" is there too, and nothing is returned.
C7_Witness ==
    /\ PartitionsReturned
    /\ "hier" \in phases
    /\ Cardinality(TopLevels(objects)) = 1
    /\ HowMany(objects, HasSlash) >= 2
    /\ HowMany(objects, HasSlash) < Len(objects)
    /\ partitions = <<>>

\* the five ranges of the histogram as the specification gives them; hi = -1
\* stands for no upper bound
HistogramRanges ==
    << [lo |-> 0, hi |-> 1024],
       [lo |-> 1024, hi |-> 1024 * 1024],
       [lo |-> 1024 * 1024, hi |-> 100 * 1024 * 1024],
       [lo |-> 100 * 1024 * 1024, hi |-> 1024 * 1024 * 1024],
       [lo |-> 1024 * 1024 * 1024, hi |-> -1] >>

\* C8: for objects of non-negative size the histogram has the five ranges
\* [0,1KiB) [1KiB,1MiB) [1MiB,100MiB) [100MiB,1GiB) [1GiB,inf) in ascending
\* order, each bucket counts the objects whose size is at least its lower and
\* below its upper bound (a size on a boundary belongs to the upper bucket),
\* and the counts sum to the number of objects.
C8_HistogramExhaustive ==
    (pc = "partitions" /\ \A i \in 1..Len(objects) : objects[i].Size >= 0) =>
        LET dist == metadata.SizeDistribution
        IN  /\ Len(dist) = 5
            /\ \A b \in 1..5 :
                  LET In(o) == /\ o.Size >= HistogramRanges[b].lo
                               /\ HistogramRanges[b].hi = -1 \/ o.Size < HistogramRanges[b].hi
                  IN  /\ dist[b].Min = HistogramRanges[b].lo
                      /\ dist[b].Max = HistogramRanges[b].hi
                      /\ dist[b].Count = HowMany(objects, In)
            /\ SumSeq([b \in 1..5 |-> dist[b].Count]) = Len(objects)

\* C8 witness: sizes 1023, 1024 and 2^30 were counted, 1024 in the second bucket.
C8_Witness ==
    /\ pc = "partitions"
    /\ Len(objects) = 3
    /\ {objects[i].Size : i \in 1..3} = {1023, 1024, 1024 * 1024 * 1024}
    /\ metadata.SizeDistribution[1].Count = 1
    /\ metadata.SizeDistribution[2].Count = 1
    /\ metadata.SizeDistribution[5].Count = 1

\* the last path segment of the key: the text after its last "/"
LastSegment(key) == SubSeq(key, LastSlash(key) + 1, Len(key))

\* the classification the specification gives a key
Classified(key) ==
    LET seg == LastSegment(key)
        dots == {i \in 1..Len(seg) : seg[i] = "."}
    IN  IF HasSuffixSlash(key) THEN DirectoryMarker
        ELSE IF dots = {} THEN NoExtensionMarker
        ELSE ToLower(SubSeq(seg, (CHOOSE d \in dots : \A e \in dots : e <= d) + 1, Len(seg)))

\* C9: every key that ends in "/" is counted as "[directory]", a key whose
\* last segment has a suffix after a "." under that suffix in lower case, any
\* other key as "[no extension]", and the counts sum to the number of objects.
C9_FileTypes ==
    pc = "partitions" =>
        LET stats == metadata.FileTypeStats
        IN  /\ DOMAIN stats = {Classified(objects[i].Key) : i \in 1..Len(objects)}
            /\ \A t \in DOMAIN stats :
                  LET OfType(o) == Classified(o.Key) = t
                  IN  stats[t] = HowMany(objects, OfType)
            /\ SumSet(stats, DOMAIN stats) = Len(objects)

\* C10: on an empty collection nothing fails: the summary has no objects, no
\* size, no storage class and no cost; the metadata has no file type, five
\* empty buckets and the zero date range; AnalyzePartitions returns nothing
\* and runs neither phase.
C10_EmptyCollection ==
    (AnalyzeReturned /\ objects = <<>>) =>
        /\ summary.TotalObjects = 0
        /\ summary.TotalSize = 0
        /\ DOMAIN summary.StorageClasses = {}
        /\ summary.EstimatedCost = 0
        /\ MetadataReturned =>
              /\ DOMAIN metadata.FileTypeStats = {}
              /\ Len(metadata.SizeDistribution) = 5
              /\ \A b \in 1..5 : metadata.SizeDistribution[b].Count = 0
              /\ metadata.DateRange = [Earliest |-> ZeroTime, Latest |-> ZeroTime]
              /\ pc \notin {"date", "after_date", "hier"}
        /\ PartitionsReturned =>
              /\ partitions = <<>>
              /\ phases = {}

\* C10 witness: ProfileBucket has run to its end on an empty bucket.
C10_Witness ==
    /\ pc = "done"
    /\ bucket = <<>>
    /\ objects = <<>>
    /\ written = {"summary", "metadata", "partitions"}

\* the object listObjects collects for each of the first n records of the bucket
FirstObjects(n) == [i \in 1..n |-> ObjectOf(bucket[i])]

\* C11: with a limit L > 0 and a store that serves at most MaxKeys records a
\* page, listObjects never collects or counts more than L records, asks for no
\* page once L records are processed, and returns the first min(L, size of the
\* bucket) records in arrival order; with L = 0 it returns every record.
C11_LimitRespected ==
    /\ (limit > 0 /\ ~AnalyzeFailed) =>
          /\ processedCount <= limit
          /\ Len(objects) <= limit
          /\ summary.TotalObjects <= limit
          /\ pc = "process" =>
                /\ continuationToken < limit
                /\ processedCount + Len(page) <= limit
    /\ AnalyzeReturned =>
          objects = FirstObjects(IF limit > 0 THEN Min2(limit, Len(bucket))
                                 ELSE Len(bucket))

\* C11 witness: a bucket of three records listed under a limit of two returns
\* its first two records while the store still reports more.
C11_Witness ==
    /\ pc = "cost"
    /\ limit = 2
    /\ Len(bucket) = 3
    /\ continuationToken = 2
    /\ isTruncated
    /\ Len(objects) = 2

\* C13: when the creation-date lookup or any page request fails, AnalyzeBucket
\* returns no summary and no collection, and ProfileBucket returns that error
\* at once: no metadata analysis, no partition detection, no output file, and
\* nothing more happens for that bucket.
C13_AnalyzeErrorAborts ==
    err \in AnalyzeErrors =>
        /\ pc = "failed"
        /\ summary = NoValue
        /\ objects = <<>>
        /\ metadata = NoValue
        /\ partitions = <<>>
        /\ phases = {}
        /\ written = {}
        /\ ~ENABLED Next

\* C13 witness: a page request failed after an earlier page was processed.
C13_Witness ==
    /\ pc = "failed"
    /\ err = "failed to analyze bucket: failed to list objects"
    /\ continuationToken > 0
    /\ processedCount > 0
    /\ objects = <<>>

\* C15: a result of AnalyzePartitions is empty or carries one pattern name on
\* all its partitions; the hierarchical phase starts only with nothing found
\* by the date phase, so its partitions never stand beside date partitions.
C15_OnePatternName ==
    /\ pc = "hier" => (partitions = <<>> /\ datePartitions = <<>>)
    /\ PartitionsReturned =>
          /\ \A i, j \in 1..Len(partitions) :
                partitions[i].Pattern = partitions[j].Pattern
          /\ "hier" \in phases <=> ("date" \in phases /\ datePartitions = <<>>)
          /\ \A i \in 1..Len(partitions) :
                partitions[i].Pattern = HierarchicalName <=> "hier" \in phases

\* C15 witness: a collection that a date pattern covers and that also has two
\* top-level prefixes is returned with its date partitions only.
C15_Witness ==
    /\ PartitionsReturned
    /\ partitions # <<>>
    /\ partitions = datePartitions
    /\ "hier" \notin phases
    /\ Cardinality(TopLevels(objects)) >= 2

\* the positions of the key where the shape matches
MatchesAt(key, shape) == {i \in 1..Len(key) : MatchAt(key, shape, i)}

\* the substring of the key at its first match of the shape; the key holds one
FirstMatch(key, shape) ==
    LET first == CHOOSE a \in MatchesAt(key, shape) :
                     \A b \in MatchesAt(key, shape) : a <= b
    IN  [k \in 1..Len(shape) |-> key[first + k - 1]]

\* the objects, by position, whose key holds a match of the shape
Matched(objs, shape) == {i \in 1..Len(objs) : MatchesAt(objs[i].Key, shape) # {}}

\* C16: the groups of an accepted date pattern partition the matched objects:
\* every object whose key holds a match is in exactly one group, the one whose
\* prefix is the first match in its key; each group's objectCount (at least 1)
\* and totalSize are the number and summed size of its members; the prefixes
\* are pairwise distinct and in strictly ascending order.
C16_GroupsPartitionMatched ==
    (PartitionsReturned /\ datePartitions # <<>>) =>
        LET shape == Patterns[PatternIndex(partitions[1].Pattern)].shape
            Members(g) == {i \in Matched(objects, shape) :
                              FirstMatch(objects[i].Key, shape) = partitions[g].Prefix}
        IN  /\ \A i \in Matched(objects, shape) :
                  Cardinality({g \in 1..Len(partitions) : i \in Members(g)}) = 1
            /\ \A g \in 1..Len(partitions) :
                  /\ partitions[g].ObjectCount >= 1
                  /\ partitions[g].ObjectCount = Cardinality(Members(g))
                  /\ partitions[g].TotalSize =
                        SumSet([i \in Members(g) |-> objects[i].Size], Members(g))
            /\ \A g, h \in 1..Len(partitions) :
                  g < h => StrLess(partitions[g].Prefix, partitions[h].Prefix)

\* C16 witness: YYYY/MM is accepted for three objects in two groups, returned
\* in ascending order though they came in descending order; the key with two
\* matches is grouped under its first, and a fourth object is in no group.
C16_Witness ==
    /\ PartitionsReturned
    /\ Len(objects) = 4
    /\ objects[1].Key = KeyYmPath
    /\ objects[2].Key = KeyYmdPath
    /\ objects[3].Key = KeyReadme
    /\ objects[4].Key = KeyYmdPath
    /\ Len(partitions) = 2
    /\ partitions[1].Prefix = <<"2","0","2","3","/","0","1">>
    /\ partitions[1].ObjectCount = 2
    /\ partitions[2].Prefix = <<"2","0","2","3","/","0","2">>

\* the object belongs to the group of that partition
InGroup(o, p) ==
    IF p.Pattern = HierarchicalName
    THEN HasSlash(o) /\ TopLevel(o.Key) = p.Prefix
    ELSE LET shape == Patterns[PatternIndex(p.Pattern)].shape
         IN  /\ MatchesAt(o.Key, shape) # {}
             /\ FirstMatch(o.Key, shape) = p.Prefix

\* the keys of the group's objects in the order of the collection
GroupKeys(objs, p) ==
    LET Member(o) == InGroup(o, p)
        members == SelectSeq(objs, Member)
    IN  [k \in 1..Len(members) |-> members[k].Key]

\* C17: in the date phase and in the hierarchical phase alike, a returned
\* partition's example keys are the keys of the first min(3, objectCount)
\* objects of its group, in the order of the collection: never more than
\* three, never none.
C17_ExamplesAreFirstThree ==
    PartitionsReturned =>
        \A g \in 1..Len(partitions) :
            /\ Len(partitions[g].Examples) = Min2(3, partitions[g].ObjectCount)
            /\ Len(partitions[g].Examples) \in 1..3
            /\ partitions[g].Examples =
                  SubSeq(GroupKeys(objects, partitions[g]), 1,
                         Len(partitions[g].Examples))

\* C17 witness: a hierarchical group of four objects with two different keys
\* keeps the first three keys in the order they came.
C17_Witness ==
    /\ PartitionsReturned
    /\ "hier" \in phases
    /\ Len(partitions) = 2
    /\ partitions[1].ObjectCount = 4
    /\ partitions[1].Examples = <<KeyLogsB, KeyLogs, KeyLogsB>>
    /\ objects[1].Key = KeyLogsB
    /\ objects[2].Key = KeyTmp

\* the names of the input
Names == {bucketNames[k] : k \in 1..Len(bucketNames)}

\* how often the name stands in failedBuckets
TimesFailed(b) == Cardinality({k \in 1..Len(failedBuckets) : failedBuckets[k] = b})

\* the workers that hold a bucket: past the receive, not yet back at the range
Analysing == {w \in DOMAIN wpc : wpc[w] \notin {"unborn", "recv", "exit"}}

AllExited == \A w \in DOMAIN wpc : wpc[w] = "exit"

\* C12: when ProfileMultipleBuckets returns, under every interleaving of the
\* workers and whatever lookups and profiles failed, every input bucket is
\* recorded exactly once, as a success or in the failed list, no update of the
\* shared counters is lost, and the function returns no error.
C12_EveryBucketRecordedOnce ==
    mainPc = "returned" =>
        /\ ret = "nil"
        /\ successCount + Len(failedBuckets) = Len(bucketNames)
        /\ poolProcessedCount = Len(bucketNames)
        /\ successCount = Cardinality({b \in Names : ledger[b].outcome = "ok"})
        /\ \A b \in Names :
              TimesFailed(b) =
                  IF ledger[b].outcome \in {"region_failed", "profile_failed"}
                  THEN 1 ELSE 0
        /\ \A k \in 1..Len(failedBuckets) : failedBuckets[k] \in Names
        /\ printed = [total |-> Len(bucketNames), success |-> successCount,
                      failed |-> failedBuckets]

\* C12 witness: of three buckets one fails at the region lookup, one in
\* ProfileBucket and one succeeds, and the function has returned.
C12_Witness ==
    /\ mainPc = "returned"
    /\ Len(bucketNames) = 3
    /\ ledger[1].outcome = "region_failed"
    /\ ledger[2].outcome = "ok"
    /\ ledger[3].outcome = "profile_failed"
    /\ failedBuckets = <<3, 1>>
    /\ successCount = 1

\* C14: at every moment at most min(cap, number of buckets) buckets are being
\* analysed; a name is taken from the channel by one worker only, which alone
\* looks up its region and runs ProfileBucket on it; at the return every name
\* has been taken once, none twice and none skipped.
C14_BoundedPoolEachBucketOnce ==
    /\ Cardinality(Analysing) <= Min2(MaxWorkers, Len(bucketNames))
    /\ \A w, v \in Analysing : w # v => bucketName[w] # bucketName[v]
    /\ \A w \in Analysing : ledger[bucketName[w]].taken = 1
    /\ \A b \in Names :
          /\ ledger[b].taken <= 1
          /\ ledger[b].lookups <= ledger[b].taken
          /\ ledger[b].profiles <= ledger[b].lookups
          /\ ledger[b].taken = 1 =>
                \/ \E w \in Analysing : bucketName[w] = b
                \/ ledger[b].outcome # "none"
    /\ mainPc = "returned" =>
          \A b \in Names :
              /\ ledger[b].taken = 1
              /\ ledger[b].lookups = 1
              /\ ledger[b].profiles = IF ledger[b].outcome = "region_failed" THEN 0 ELSE 1
              /\ ledger[b].outcome # "none"

\* C14 witness: with more buckets than the cap, as many workers as the cap
\* are inside ProfileBucket at once while a name waits in the channel.
C14_Witness ==
    /\ Len(bucketNames) > MaxWorkers
    /\ Cardinality({w \in DOMAIN wpc : wpc[w] = "profile"}) = MaxWorkers
    /\ bucketChan # <<>>
    /\ chanClosed

\* what holds of the pool in every state
PoolSafe ==
    /\ mainPc = "send" => Len(bucketChan) < ChanCap(Len(bucketNames))
    /\ \A w \in DOMAIN wpc :
          /\ wpc[w] \in {"load", "store", "unlock"} <=> mu = w
          /\ wpc[w] = "exit" => (chanClosed /\ bucketChan = <<>>)
    /\ wg = Cardinality({w \in DOMAIN wpc : wpc[w] \notin {"unborn", "exit"}})
    /\ mainPc \in {"summary", "returned"} =>
          (AllExited /\ mu = 0 /\ wg = 0 /\ bucketChan = <<>> /\ sent = Len(bucketNames))
    /\ ret = "nil" <=> mainPc = "returned"

\* C18: when every region lookup and every ProfileBucket call returns,
\* ProfileMultipleBuckets returns for any number of buckets, none, few or
\* more than the cap: the producer never finds the channel full, a worker
\* leaves only on a closed and drained channel, the mutex is held only inside
\* a critical section, and the summary is printed after all workers are done.
C18_PoolTerminates == <>(mainPc = "returned") /\ []PoolSafe

\* C18 witness: the function has returned for more buckets than the cap, all
\* workers gone and the mutex free.
C18_Witness ==
    /\ mainPc = "returned"
    /\ Len(bucketNames) > MaxWorkers
    /\ AllExited
    /\ mu = 0

====
